---- MODULE Spec2Model ----
(***************************************************************************)
(* Verification model of three components of the query service:            *)
(*   - the temporary-file vacuum sweep                                     *)
(*       (ee/src/storages/fuse/operations/vacuum_temporary_files.rs)       *)
(*   - the recluster loop of ReclusterTableInterpreter                     *)
(*       (service/src/interpreters/interpreter_table_recluster.rs)         *)
(*   - PipelineBuilder::finalize / build_pipeline / add_plan_scope         *)
(*       (service/src/pipelines/pipeline_builder.rs)                       *)
(* Each component has its own specification (SpecVacuum, SpecRecluster,    *)
(* SpecBuilder); while one runs, the two others rest at "idle".            *)
(***************************************************************************)
EXTENDS Integers, Sequences, FiniteSets, TLC

VARIABLES
    \* ---- vacuum sweep: storage and inputs
    storage,                \* the namespace under temporary_dir, in listing order
    limit,                  \* the item limit of the invocation
    retain,                 \* Option<Duration>: <<>> is None, <<d>> is Some(d)
    timestamp,              \* SystemTime::now(), sampled once per invocation
    \* ---- vacuum sweep: locals of do_vacuum_temporary_files
    vpc,                    \* position in the code
    ds,                     \* outer lister: index of the next entry to yield
    removed_temp_files,
    remove_temp_files_path, \* outer batch: indexes of the top-level files queued
    end_of_stream,
    \* ---- vacuum sweep: locals of vacuum_finished_query
    de,                     \* index of the sub-directory being swept (0: none)
    life_mills,
    all_files_removed,
    all_each_files_removed,
    ds_in,                  \* inner lister: index of the next child to yield
    remove_in,              \* inner batch: indexes of the children queued
    end_in,                 \* inner end_of_stream
    \* ---- vacuum sweep: what an observer sees
    vresult,                \* <<>> while running, <<"Ok", n>> or <<"Err">>
    requests,               \* sizes of the bulk-delete requests issued, in order
    listed,                 \* per top-level entry: how many children were listed
    returned,               \* sub-directories whose sweep returned Ok
    run,                    \* 1 for a first invocation, 2 for one that follows it
    first,                  \* <<>> or the storage the first invocation left
    \* ---- recluster loop: inputs and environment
    is_final,               \* plan.is_final: run until exhausted
    timeout,                \* Duration::from_secs(recluster_timeout_secs)
    now,                    \* SystemTime::now()
    aborting,               \* what ctx.check_aborting() reports
    \* ---- recluster loop: locals of execute2
    rpc,                    \* position in the code
    start,
    times,
    block_count,
    res,                    \* result of execute_recluster: <<"Ok", is_break>>
                            \* or <<"Err", code>>
    elapsed_time,
    \* ---- recluster loop: locals of execute_recluster
    lock_guards,            \* lock guards alive
    executors,              \* PipelineCompleteExecutors alive
    mutator,                \* Option<ReclusterMutator> of this iteration
    physical_plan,          \* <<>> or the Result of build_recluster_physical_plan
    shared_call,            \* <<>> or the call made to the compaction plan
                            \* builder: its arguments and what it returned
    other,                  \* a concurrent execute2 on the same table: "out" of
                            \* a batch, or in a "batch" under the table lock
    \* ---- recluster loop: what an observer sees
    rresult,                \* <<>> while running, <<"Ok">> or <<"Err", code>>
    history,                \* records written by write_log
    acquires,               \* calls of acquire_table_lock
    checks,                 \* calls of check_aborting that returned Ok
    exit_by,                \* how the loop was left
    effected,               \* blocks of the batches whose execution returned Ok
    \* ---- pipeline builder
    plan,                   \* the physical plan handed to finalize
    bpc,                    \* position in finalize
    stack,                  \* the active calls of build_pipeline, innermost last
    ret,                    \* what the last build_pipeline call returned
    scopes,                 \* plan scopes open on the pipeline being built
    main_pipeline,          \* the pipes added so far
    pipelines,              \* the source pipelines accumulated
    bresult                 \* <<>> while running, <<"Ok", result>> or <<"Err", msg>>

vacVars == <<storage, limit, retain, timestamp, vpc, ds, removed_temp_files,
             remove_temp_files_path, end_of_stream, de, life_mills,
             all_files_removed, all_each_files_removed, ds_in, remove_in,
             end_in, vresult, requests, listed, returned, run, first>>

recVars == <<is_final, timeout, now, aborting, rpc, start, times, block_count,
             res, elapsed_time, lock_guards, executors, mutator, physical_plan,
             shared_call, other, rresult, history, acquires, checks, exit_by,
             effected>>

bldVars == <<plan, bpc, stack, ret, scopes, main_pipeline, pipelines, bresult>>

vars == <<vacVars, recVars, bldVars>>

\* What a step of one component leaves alone.
OutsideVacuum == <<recVars, bldVars>>
OutsideRecluster == <<vacVars, bldVars>>
OutsideBuilder == <<vacVars, recVars>>

-----------------------------------------------------------------------------
(* Bounds of the model.                                                    *)

\* Entries (top-level entries plus children of sub-directories) in the namespace.
MaxEntries == 4
\* Largest item limit tried; a limit of MaxEntries or more never binds.
MaxLimit == 4
\* Paths per bulk-delete request. The code's cap is 1000 (lines 103 and 195);
\* the model scales it down so that a batch fills within MaxEntries entries.
BatchCap == 2
\* Iterations of the recluster loop that the model follows.
MaxIters == 3
\* Ticks of the wall clock during one execute2.
MaxClock == 3
\* Largest recluster_timeout_secs tried, in ticks.
MaxTimeout == 2
\* Largest recluster_blocks_count of one batch.
MaxBlocks == 2
\* Nodes of the physical plan handed to the pipeline builder.
MaxPlanNodes == 4

-----------------------------------------------------------------------------
(* Constants of the program. Durations and times are counted in days.      *)

DEFAULT_RETAIN_DURATION == 3

None == <<>>
Some(x) == <<x>>
unwrap_or(o, d) == IF o = None THEN d ELSE o[1]

\* retain.unwrap_or(DEFAULT_RETAIN_DURATION)
expire_time == unwrap_or(retain, DEFAULT_RETAIN_DURATION)

-----------------------------------------------------------------------------
(* The namespace.                                                          *)

\* Ages of the files at the time of the sweep: at the default retention and a
\* day beyond it; under the longer retention these are "younger" and "at".
Ages == {DEFAULT_RETAIN_DURATION, DEFAULT_RETAIN_DURATION + 1}
Now == DEFAULT_RETAIN_DURATION + 1
Retains == {None, Some(DEFAULT_RETAIN_DURATION + 1)}

\* What meta.last_modified() returns for a file.
Modifieds == {None} \cup {Some(Now - a) : a \in Ages}

Sentinel == [name |-> "finished", mode |-> "FILE", modified |-> None,
             present |-> TRUE]
ChildFiles == {[name |-> "part", mode |-> "FILE", modified |-> m,
                present |-> TRUE] : m \in Modifieds}
ChildDir == [name |-> "sub", mode |-> "DIR", modified |-> None,
             present |-> TRUE]
ChildEntries == {Sentinel, ChildDir} \cup ChildFiles

\* Listings of a sub-directory with k entries: at most one is the sentinel.
ChildListings(k) ==
    {c \in [1..k -> ChildEntries] :
        Cardinality({j \in 1..k : c[j].name = "finished"}) <= 1}

TopFiles == {[mode |-> "FILE", modified |-> m, present |-> TRUE,
              children |-> <<>>] : m \in Modifieds}
TopDirs(k) == {[mode |-> "DIR", modified |-> None, present |-> TRUE,
                children |-> c] : c \in ChildListings(k)}

EntrySize(e) == 1 + Len(e.children)

RECURSIVE Namespaces(_)
\* Every namespace of at most n entries.
Namespaces(n) ==
    IF n = 0 THEN {<<>>}
    ELSE {<<>>} \cup
         UNION {{<<e>> \o r : r \in Namespaces(n - EntrySize(e))} :
                   e \in TopFiles \cup UNION {TopDirs(k) : k \in 0..(n - 1)}}

-----------------------------------------------------------------------------
(* Storage primitives (opendal Operator).                                  *)

\* operator.is_exist("<dir>finished")
is_exist_finished(i) ==
    \E j \in 1..Len(storage[i].children) :
        /\ storage[i].children[j].name = "finished"
        /\ storage[i].children[j].present

\* operator.remove_via(paths) on top-level files
RemoveTop(st, idx) ==
    [i \in 1..Len(st) |->
        IF i \in idx THEN [st[i] EXCEPT !.present = FALSE] ELSE st[i]]

\* operator.remove_via(paths) on children of sub-directory d
RemoveChildren(st, d, idx) ==
    [st EXCEPT ![d].children =
        [j \in 1..Len(st[d].children) |->
            IF j \in idx THEN [st[d].children[j] EXCEPT !.present = FALSE]
            ELSE st[d].children[j]]]

DeleteFinishedAndDir(st, d) ==
    [RemoveChildren(st, d,
        {j \in 1..Len(st[d].children) : st[d].children[j].name = "finished"})
     EXCEPT ![d].present = FALSE]
\* operator.delete("<dir>finished"): deleting a missing path succeeds
DeleteFinished(st, d) ==
    RemoveChildren(st, d,
        {j \in 1..Len(st[d].children) : st[d].children[j].name = "finished"})

\* operator.delete("<dir>")
DeleteDirEntry(st, d) == [st EXCEPT ![d].present = FALSE]

\* The next entry at or after position k that a lister yields, or 0.
NextPresent(s, k) ==
    IF \E j \in k..Len(s) : s[j].present
    THEN CHOOSE j \in k..Len(s) :
            s[j].present /\ \A h \in k..(j - 1) : ~s[h].present
    ELSE 0

-----------------------------------------------------------------------------
(* Decisions of the sweep, as the code takes them.                         *)

ExpiredStrict(modified, threshold) ==
    /\ modified # None
    /\ timestamp - modified[1] > threshold
\* `if let Some(modified) = meta.last_modified()` and
\* `timestamp - modified.timestamp_millis() >= threshold`
Expired(modified, threshold) ==
    /\ modified # None
    /\ timestamp - modified[1] >= threshold

LifeMillsSpecWording(exists) == IF exists THEN expire_time ELSE 0
\* match operator.is_exist("<dir>finished") { true => 0, false => expire_time }
LifeMills(exists) == IF exists THEN 0 ELSE expire_time

CountedTwice(n) == n + 2
\* lines 99 and 191: `removed_temp_files += 1`
Counted(n) == n + 1

BatchFullLimitOnly(removed, len) == removed >= limit
BatchFullCapOnly(removed, len) == len >= BatchCap
\* `removed_temp_files >= limit || remove_temp_files_path.len() >= 1000`
BatchFull(removed, len) == removed >= limit \/ len >= BatchCap

LimitZeroNotShortcut(l) == FALSE
\* line 38: `if limit == 0`
LimitIsZero(l) == l = 0

EndsAfterOneBatch(eos) == TRUE
\* line 141: `if end_of_stream { break }`
OuterLoopEnds(eos) == eos

DeletesDirOnlyIfFinished(afr, d) == afr /\ is_exist_finished(d)
\* `if all_files_removed { delete finished; delete dir }`
DeletesDir(afr, d) == afr

-----------------------------------------------------------------------------
(* do_vacuum_temporary_files                                               *)

VacLocals == <<ds, removed_temp_files, remove_temp_files_path, end_of_stream>>
VacInner == <<de, life_mills, all_files_removed, all_each_files_removed,
              ds_in, remove_in, end_in>>
VacInputs == <<limit, retain, timestamp>>
VacRuns == <<run, first>>
VacGhost == <<requests, listed, returned>>

VacInit ==
    /\ storage \in Namespaces(MaxEntries)
    /\ limit \in 0..MaxLimit
    /\ retain \in Retains
    /\ timestamp = Now
    /\ vpc = "start"
    /\ ds = 1
    /\ removed_temp_files = 0
    /\ remove_temp_files_path = {}
    /\ end_of_stream = TRUE
    /\ de = 0
    /\ life_mills = 0
    /\ all_files_removed = TRUE
    /\ all_each_files_removed = TRUE
    /\ ds_in = 1
    /\ remove_in = {}
    /\ end_in = TRUE
    /\ vresult = None
    /\ requests = <<>>
    /\ listed = [i \in 1..Len(storage) |-> 0]
    /\ returned = {}
    /\ run = 1
    /\ first = None

VacIdle ==
    /\ storage = <<>>
    /\ limit = 0
    /\ retain = None
    /\ timestamp = Now
    /\ vpc = "idle"
    /\ ds = 1
    /\ removed_temp_files = 0
    /\ remove_temp_files_path = {}
    /\ end_of_stream = TRUE
    /\ de = 0
    /\ life_mills = 0
    /\ all_files_removed = TRUE
    /\ all_each_files_removed = TRUE
    /\ ds_in = 1
    /\ remove_in = {}
    /\ end_in = TRUE
    /\ vresult = None
    /\ requests = <<>>
    /\ listed = <<>>
    /\ returned = {}
    /\ run = 1
    /\ first = None

\* lines 38-40: `if limit == 0 { return Ok(0) }`
VacLimitZero ==
    /\ vpc = "start"
    /\ LimitIsZero(limit)
    /\ vpc' = "done"
    /\ vresult' = <<"Ok", 0>>
    /\ UNCHANGED <<storage, VacInputs, VacRuns, VacLocals, VacInner, VacGhost>>
    /\ UNCHANGED OutsideVacuum

\* lines 42-60: the lister of temporary_dir is opened, the counters are zeroed
VacStart ==
    /\ vpc = "start"
    /\ ~LimitIsZero(limit)
    /\ vpc' = "outer_while"
    /\ ds' = 1
    /\ removed_temp_files' = 0
    /\ UNCHANGED <<storage, VacInputs, VacRuns, remove_temp_files_path, end_of_stream,
                   VacInner, vresult, VacGhost>>
    /\ UNCHANGED OutsideVacuum

\* line 62 `while removed_temp_files < limit`, lines 63-66, and line 154
VacOuterWhile ==
    /\ vpc = "outer_while"
    /\ IF removed_temp_files < limit
       THEN /\ vpc' = "outer_next"
            /\ end_of_stream' = TRUE
            /\ remove_temp_files_path' = {}
            /\ vresult' = vresult
       ELSE /\ vpc' = "done"
            /\ vresult' = <<"Ok", removed_temp_files>>
            /\ UNCHANGED <<end_of_stream, remove_temp_files_path>>
    /\ UNCHANGED <<storage, VacInputs, VacRuns, ds, removed_temp_files, VacInner,
                   VacGhost>>
    /\ UNCHANGED OutsideVacuum

\* line 68: ds.try_next() yields None
VacOuterEnd ==
    /\ vpc = "outer_next"
    /\ NextPresent(storage, ds) = 0
    /\ vpc' = "outer_remove"
    /\ ds' = Len(storage) + 1
    /\ UNCHANGED <<storage, VacInputs, VacRuns, removed_temp_files,
                   remove_temp_files_path, end_of_stream, VacInner, vresult,
                   VacGhost>>
    /\ UNCHANGED OutsideVacuum

\* lines 96-109: ds.try_next() yields a file
VacOuterFile ==
    /\ vpc = "outer_next"
    /\ NextPresent(storage, ds) # 0
    /\ LET i == NextPresent(storage, ds)
           meta == storage[i]
       IN  /\ meta.mode = "FILE"
           /\ ds' = i + 1
           /\ IF Expired(meta.modified, expire_time)
              THEN /\ removed_temp_files' = Counted(removed_temp_files)
                   /\ remove_temp_files_path' = remove_temp_files_path \cup {i}
                   /\ IF BatchFull(Counted(removed_temp_files),
                                   Cardinality(remove_temp_files_path) + 1)
                      THEN end_of_stream' = FALSE /\ vpc' = "outer_remove"
                      ELSE end_of_stream' = end_of_stream /\ vpc' = "outer_next"
              ELSE /\ vpc' = "outer_next"
                   /\ UNCHANGED <<removed_temp_files, remove_temp_files_path,
                                  end_of_stream>>
    /\ UNCHANGED <<storage, VacInputs, VacRuns, VacInner, vresult, VacGhost>>
    /\ UNCHANGED OutsideVacuum

\* lines 72-89 and 167-173: ds.try_next() yields a directory; the sentinel is
\* looked up, life_mills is chosen and vacuum_finished_query is entered
VacOuterDir ==
    /\ vpc = "outer_next"
    /\ NextPresent(storage, ds) # 0
    /\ LET i == NextPresent(storage, ds)
       IN  /\ storage[i].mode = "DIR"
           /\ ds' = i + 1
           /\ de' = i
           /\ life_mills' = LifeMills(is_exist_finished(i))
    /\ all_files_removed' = TRUE
    /\ ds_in' = 1
    /\ vpc' = "inner_while"
    /\ UNCHANGED <<storage, VacInputs, VacRuns, removed_temp_files,
                   remove_temp_files_path, end_of_stream,
                   all_each_files_removed, remove_in, end_in, vresult,
                   VacGhost>>
    /\ UNCHANGED OutsideVacuum

\* lines 91-94: after vacuum_finished_query returned
VacOuterAfterDir ==
    /\ vpc = "outer_after_dir"
    /\ IF removed_temp_files >= limit
       THEN end_of_stream' = FALSE /\ vpc' = "outer_remove"
       ELSE end_of_stream' = end_of_stream /\ vpc' = "outer_next"
    /\ UNCHANGED <<storage, VacInputs, VacRuns, ds, removed_temp_files,
                   remove_temp_files_path, VacInner, vresult, VacGhost>>
    /\ UNCHANGED OutsideVacuum

\* lines 114-143 and 154: the batch is removed, then `if end_of_stream { break }`
VacOuterRemove ==
    /\ vpc = "outer_remove"
    /\ IF remove_temp_files_path # {}
       THEN /\ storage' = RemoveTop(storage, remove_temp_files_path)
            /\ requests' = Append(requests, Cardinality(remove_temp_files_path))
       ELSE UNCHANGED <<storage, requests>>
    /\ IF OuterLoopEnds(end_of_stream)
       THEN vpc' = "done" /\ vresult' = <<"Ok", removed_temp_files>>
       ELSE vpc' = "outer_while" /\ vresult' = vresult
    /\ UNCHANGED <<VacInputs, VacRuns, VacLocals, VacInner, listed, returned>>
    /\ UNCHANGED OutsideVacuum

-----------------------------------------------------------------------------
(* vacuum_finished_query                                                   *)

\* line 175 `while *removed_temp_files < limit` and lines 176-180
VacInnerWhile ==
    /\ vpc = "inner_while"
    /\ IF removed_temp_files < limit
       THEN /\ vpc' = "inner_next"
            /\ end_in' = TRUE
            /\ all_each_files_removed' = TRUE
            /\ remove_in' = {}
       ELSE /\ vpc' = "inner_finish"
            /\ UNCHANGED <<end_in, all_each_files_removed, remove_in>>
    /\ UNCHANGED <<storage, VacInputs, VacRuns, VacLocals, de, life_mills,
                   all_files_removed, ds_in, vresult, VacGhost>>
    /\ UNCHANGED OutsideVacuum

\* line 182: the inner ds.try_next() yields None
VacInnerEnd ==
    /\ vpc = "inner_next"
    /\ NextPresent(storage[de].children, ds_in) = 0
    /\ vpc' = "inner_remove"
    /\ ds_in' = Len(storage[de].children) + 1
    /\ UNCHANGED <<storage, VacInputs, VacRuns, VacLocals, de, life_mills,
                   all_files_removed, all_each_files_removed, remove_in,
                   end_in, vresult, VacGhost>>
    /\ UNCHANGED OutsideVacuum

\* lines 182-206: the inner ds.try_next() yields an entry
VacInnerEntry ==
    /\ vpc = "inner_next"
    /\ NextPresent(storage[de].children, ds_in) # 0
    /\ LET j == NextPresent(storage[de].children, ds_in)
           meta == storage[de].children[j]
       IN  /\ ds_in' = j + 1
           /\ listed' = [listed EXCEPT ![de] = @ + 1]
           /\ IF meta.mode = "FILE" /\ meta.name = "finished"
              THEN \* `continue`
                   /\ vpc' = "inner_next"
                   /\ UNCHANGED <<removed_temp_files, remove_in, end_in,
                                  all_each_files_removed>>
              ELSE IF meta.mode = "FILE" /\ Expired(meta.modified, life_mills)
              THEN /\ removed_temp_files' = Counted(removed_temp_files)
                   /\ remove_in' = remove_in \cup {j}
                   /\ all_each_files_removed' = all_each_files_removed
                   /\ IF BatchFull(Counted(removed_temp_files),
                                   Cardinality(remove_in) + 1)
                      THEN end_in' = FALSE /\ vpc' = "inner_remove"
                      ELSE end_in' = end_in /\ vpc' = "inner_next"
              ELSE /\ all_each_files_removed' = FALSE
                   /\ vpc' = "inner_next"
                   /\ UNCHANGED <<removed_temp_files, remove_in, end_in>>
    /\ UNCHANGED <<storage, VacInputs, VacRuns, ds, remove_temp_files_path,
                   end_of_stream, de, life_mills, all_files_removed, vresult,
                   requests, returned>>
    /\ UNCHANGED OutsideVacuum

\* lines 208-237: all_files_removed is updated, the batch is removed, then
\* `if end_of_stream { break }`
VacInnerRemove ==
    /\ vpc = "inner_remove"
    /\ all_files_removed' = (all_files_removed /\ all_each_files_removed)
    /\ IF remove_in # {}
       THEN /\ storage' = RemoveChildren(storage, de, remove_in)
            /\ requests' = Append(requests, Cardinality(remove_in))
       ELSE UNCHANGED <<storage, requests>>
    /\ vpc' = IF end_in THEN "inner_finish" ELSE "inner_while"
    /\ UNCHANGED <<VacInputs, VacRuns, VacLocals, de, life_mills,
                   all_each_files_removed, ds_in, remove_in, end_in, vresult,
                   listed, returned>>
    /\ UNCHANGED OutsideVacuum

\* lines 240-241: `if all_files_removed { operator.delete("<dir>finished") }`;
\* otherwise line 245, Ok(())
VacInnerFinish ==
    /\ vpc = "inner_finish"
    /\ IF DeletesDir(all_files_removed, de)
       THEN /\ storage' = DeleteFinished(storage, de)
            /\ vpc' = "inner_delete_dir"
            /\ returned' = returned
       ELSE /\ vpc' = "outer_after_dir"
            /\ returned' = returned \cup {de}
            /\ storage' = storage
    /\ UNCHANGED <<VacInputs, VacRuns, VacLocals, VacInner, vresult, requests, listed>>
    /\ UNCHANGED OutsideVacuum

\* lines 242 and 245: operator.delete("<dir>"), Ok(())
VacInnerDeleteDir ==
    /\ vpc = "inner_delete_dir"
    /\ storage' = DeleteDirEntry(storage, de)
    /\ vpc' = "outer_after_dir"
    /\ returned' = returned \cup {de}
    /\ UNCHANGED <<VacInputs, VacRuns, VacLocals, VacInner, vresult, requests, listed>>
    /\ UNCHANGED OutsideVacuum

\* The places where a storage request is awaited with `?`: the listers
\* (lines 55, 173), try_next (68, 182), is_exist (74), remove_via (119, 215)
\* and delete (241, 242).
VacAtRequest ==
    \/ vpc = "start" /\ ~LimitIsZero(limit)
    \/ vpc \in {"outer_next", "inner_next", "inner_delete_dir"}
    \/ vpc = "outer_remove" /\ remove_temp_files_path # {}
    \/ vpc = "inner_remove" /\ remove_in # {}
    \/ vpc = "inner_finish" /\ all_files_removed

\* A storage request fails: the error is propagated by `?` and nothing of the
\* failed request is applied.
VacIoError ==
    /\ VacAtRequest
    /\ vpc' = "done"
    /\ vresult' = <<"Err">>
    /\ UNCHANGED <<storage, VacInputs, VacRuns, VacLocals, VacInner, VacGhost>>
    /\ UNCHANGED OutsideVacuum

\* do_vacuum_temporary_files returned Ok and is called again on the storage
\* it left, with the same retention, limit and clock.
VacAgain ==
    /\ vpc = "done"
    /\ run = 1
    /\ vresult # None
    /\ vresult[1] = "Ok"
    /\ run' = 2
    /\ first' = Some(storage)
    /\ vpc' = "start"
    /\ ds' = 1
    /\ removed_temp_files' = 0
    /\ remove_temp_files_path' = {}
    /\ end_of_stream' = TRUE
    /\ de' = 0
    /\ life_mills' = 0
    /\ all_files_removed' = TRUE
    /\ all_each_files_removed' = TRUE
    /\ ds_in' = 1
    /\ remove_in' = {}
    /\ end_in' = TRUE
    /\ vresult' = None
    /\ requests' = <<>>
    /\ listed' = [i \in 1..Len(storage) |-> 0]
    /\ returned' = {}
    /\ UNCHANGED <<storage, VacInputs>>
    /\ UNCHANGED OutsideVacuum

VacNext ==
    \/ VacLimitZero
    \/ VacStart
    \/ VacOuterWhile
    \/ VacOuterEnd
    \/ VacOuterFile
    \/ VacOuterDir
    \/ VacOuterAfterDir
    \/ VacOuterRemove
    \/ VacInnerWhile
    \/ VacInnerEnd
    \/ VacInnerEntry
    \/ VacInnerRemove
    \/ VacInnerFinish
    \/ VacInnerDeleteDir
    \/ VacIoError


-----------------------------------------------------------------------------
(* Properties of the vacuum sweep.                                         *)

Dirs == {i \in 1..Len(storage) : storage[i].mode = "DIR"}
ChildIdx(i) == 1..Len(storage[i].children)
IsSentinel(i, j) == storage[i].children[j].name = "finished"
\* The sub-directory was created with a `finished` sentinel.
HadSentinel(i) == \E j \in ChildIdx(i) : IsSentinel(i, j)
SentinelDeleted(i) ==
    \E j \in ChildIdx(i) : IsSentinel(i, j) /\ ~storage[i].children[j].present
\* Entries other than the sentinel that are still beneath the sub-directory.
Remaining(i) ==
    {j \in ChildIdx(i) : ~IsSentinel(i, j) /\ storage[i].children[j].present}

\* Files removed from storage: top-level files and non-sentinel children.
FilesRemoved ==
    Cardinality({i \in 1..Len(storage) :
                    storage[i].mode = "FILE" /\ ~storage[i].present})
    + Cardinality({p \in Dirs \X (1..MaxEntries + 1) :
                    /\ p[2] \in ChildIdx(p[1])
                    /\ ~IsSentinel(p[1], p[2])
                    /\ ~storage[p[1]].children[p[2]].present})
\* Sentinel files and sub-directory entries removed from storage.
MarkersRemoved ==
    Cardinality({i \in Dirs : SentinelDeleted(i)})
    + Cardinality({i \in Dirs : ~storage[i].present})
ItemsRemoved == FilesRemoved + MarkersRemoved

VacInSweep == vpc \in {"inner_while", "inner_next", "inner_remove"}

\* C1 (sentinel safety, as claimed): a sub-directory whose `finished` sentinel
\* was deleted has no other entry left beneath it, and a sub-directory whose
\* sweep returned before its listing was exhausted keeps its sentinel and its
\* own entry.
C1_SentinelSafety ==
    \A i \in Dirs :
        /\ SentinelDeleted(i) => Remaining(i) = {}
        /\ (i \in returned /\ listed[i] < Len(storage[i].children))
              => storage[i].present /\ ~SentinelDeleted(i)

\* C3 (budget, as claimed): the entries removed from storage, sentinels and
\* sub-directory entries included, never exceed the item limit.
C3_BudgetAllItems == ItemsRemoved <= limit

\* C3 (budget, amended): the files removed (top-level files and non-sentinel
\* files inside sub-directories), the counter and the paths submitted in
\* bulk-delete requests never exceed the item limit; what is removed beyond
\* them is at most one sentinel and one entry per sub-directory.
C3_BudgetFiles ==
    /\ FilesRemoved <= limit
    /\ removed_temp_files <= limit
    /\ MarkersRemoved <= 2 * Cardinality(Dirs)

\* C3 witness: a finished sweep that used up its whole limit while an expired
\* top-level file is still in storage.
C3_Witness ==
    /\ vpc = "done"
    /\ vresult = <<"Ok", limit>>
    /\ FilesRemoved = limit
    /\ \E i \in 1..Len(storage) :
          /\ storage[i].mode = "FILE"
          /\ storage[i].present
          /\ Expired(storage[i].modified, expire_time)

Q1Scenario ==
    /\ Len(storage) = 1
    /\ storage[1].mode = "DIR"
    /\ Len(storage[1].children) = 1
    /\ storage[1].children[1].name = "part"
    /\ storage[1].children[1].modified
          = Some(timestamp - (DEFAULT_RETAIN_DURATION + 1))
    /\ retain = None
    /\ limit > 0

\* C6 (as claimed): a sub-directory without sentinel keeps its entry, also
\* when it held entries and every one of them was removed.
C6_NoSentinelDirKept ==
    \A i \in Dirs :
        (~HadSentinel(i) /\ storage[i].children # <<>> /\ Remaining(i) = {})
           => storage[i].present

\* C6 (amended): once the sweep of a sub-directory without sentinel has
\* returned, its entry is removed exactly if no entry the sweep listed is left
\* (all_files_removed), as for one with the sentinel; in the scenario the file
\* and the entry of q1 are both removed.
C6_NoSentinelDirRemoved ==
    /\ \A i \in Dirs :
          (~HadSentinel(i) /\ i \in returned) =>
             (~storage[i].present <=>
                \A j \in 1..listed[i] : ~storage[i].children[j].present)
    /\ (Q1Scenario /\ vpc = "done" /\ vresult # <<"Err">>) =>
          /\ ~storage[1].children[1].present
          /\ ~storage[1].present

\* C6 witness: the scenario, swept to the end.
C6_Witness ==
    /\ Q1Scenario
    /\ vpc = "done"
    /\ vresult = <<"Ok", 1>>
    /\ ~storage[1].present

\* The files in the namespace, removed or not: top-level files and the files
\* other than the sentinel inside sub-directories.
FileCount ==
    Cardinality({i \in 1..Len(storage) : storage[i].mode = "FILE"})
    + Cardinality({p \in Dirs \X (1..MaxEntries + 1) :
                    /\ p[2] \in ChildIdx(p[1])
                    /\ ~IsSentinel(p[1], p[2])
                    /\ storage[p[1]].children[p[2]].mode = "FILE"})
\* A budget that cannot bind: the counter never reaches the limit.
Unlimited == limit > FileCount

\* C17 (idempotence): after a sweep with an unlimited budget has returned Ok,
\* a second sweep with the same retention, budget and clock changes nothing:
\* at every moment of it the storage is the storage the first sweep left, it
\* queues no file, issues no bulk-delete and no delete of a sentinel or of a
\* sub-directory, and, unless a request fails, it returns Ok(0).
C17_Idempotence ==
    (run = 2 /\ Unlimited) =>
        /\ storage = first[1]
        /\ removed_temp_files = 0
        /\ remove_temp_files_path = {}
        /\ remove_in = {}
        /\ requests = <<>>
        /\ vpc # "inner_delete_dir"
        /\ vpc = "inner_finish" => ~all_files_removed
        /\ vpc = "done" => vresult \in {<<"Ok", 0>>, <<"Err">>}

\* C17 witness: the first sweep removed two files or more and left entries
\* behind; the second sweep ran over what was left and returned Ok(0).
C17_Witness ==
    /\ run = 2
    /\ Unlimited
    /\ vpc = "done"
    /\ vresult = <<"Ok", 0>>
    /\ FilesRemoved >= 2
    /\ returned # {}
    /\ \E i \in Dirs : storage[i].present /\ Remaining(i) # {}

\* C18 (item limit zero): with limit 0 the call returns Ok(0) at once: it never
\* reaches a place where a list, existence-check or delete request is made,
\* no lister is opened or advanced, and no entry leaves the storage.
C18_LimitZero ==
    (limit = 0 /\ vpc # "idle") =>
        /\ vpc \in {"start", "done"}
        /\ ~VacAtRequest
        /\ vpc = "done" => vresult = <<"Ok", 0>>
        /\ ds = 1
        /\ ds_in = 1
        /\ de = 0
        /\ requests = <<>>
        /\ returned = {}
        /\ \A i \in 1..Len(storage) :
              /\ storage[i].present
              /\ listed[i] = 0
              /\ \A j \in 1..Len(storage[i].children) :
                    storage[i].children[j].present

\* C18 witness: limit 0 over a namespace holding an expired file and a
\* finished sub-directory; the call has returned.
C18_Witness ==
    /\ limit = 0
    /\ vpc = "done"
    /\ vresult = <<"Ok", 0>>
    /\ \E i \in 1..Len(storage) :
          storage[i].mode = "FILE" /\ Expired(storage[i].modified, expire_time)
    /\ \E i \in Dirs : HadSentinel(i) /\ Remaining(i) # {}

\* C20 (deletion order in one sub-directory sweep): while the sweep of a
\* sub-directory is in its loop, so that a bulk-delete of its files may still
\* be issued or be outstanding, its sentinel and its entry are in place; the
\* sentinel leaves the storage only in the step after the loop, the entry only
\* in the step after the sentinel delete returned; a failing bulk-delete or
\* sentinel delete ends the call with the sentinel, respectively the entry,
\* not deleted.
C20_DeletionOrder ==
    /\ [](VacInSweep => (storage[de].present /\ ~SentinelDeleted(de)))
    /\ [](vpc = "inner_finish" => storage[de].present)
    /\ [][\A i \in Dirs :
            /\ (~SentinelDeleted(i) /\ SentinelDeleted(i)') =>
                  (vpc = "inner_finish" /\ de = i /\ all_files_removed
                      /\ vpc' = "inner_delete_dir" /\ storage'[i].present)
            /\ (storage[i].present /\ ~storage'[i].present) =>
                  (vpc = "inner_delete_dir" /\ de = i /\ ~is_exist_finished(i))
         ]_vars
    /\ [][(vpc \in {"inner_remove", "inner_finish", "inner_delete_dir"}
              /\ vresult' = <<"Err">>) =>
             /\ storage' = storage
             /\ vpc' = "done"
             /\ vpc = "inner_remove" =>
                   (storage[de].present /\ ~SentinelDeleted(de))
             /\ vpc = "inner_finish" => storage[de].present]_vars
    /\ [][vpc = "done" => storage' = storage]_vars

\* C20 witness: beneath a sentinel a full bulk-delete and the rest of the
\* listing are done, the sentinel is deleted, and the delete of the entry is
\* about to be issued.
C20_Witness ==
    /\ vpc = "inner_delete_dir"
    /\ HadSentinel(de)
    /\ SentinelDeleted(de)
    /\ storage[de].present
    /\ Remaining(de) = {}
    /\ requests # <<>>
    /\ requests[Len(requests)] = BatchCap

\* C23 (batch cap): every bulk-delete request carries at least one path and
\* at most the cap; a batch being filled is below the cap and the counter
\* below the limit whenever a further entry is about to be read into it.
C23_BatchCap ==
    /\ \A k \in 1..Len(requests) : requests[k] >= 1 /\ requests[k] <= BatchCap
    /\ Cardinality(remove_temp_files_path) <= BatchCap
    /\ Cardinality(remove_in) <= BatchCap
    /\ vpc = "outer_next" =>
          /\ Cardinality(remove_temp_files_path) < BatchCap
          /\ removed_temp_files < limit
    /\ vpc = "inner_next" =>
          /\ Cardinality(remove_in) < BatchCap
          /\ removed_temp_files < limit

\* C23 witness: under a limit above the cap, a request of exactly the cap was
\* issued and a further request followed it.
C23_Witness ==
    /\ limit > BatchCap
    /\ Len(requests) >= 2
    /\ requests[1] = BatchCap
    /\ vpc = "done"

TopFileIdx == {i \in 1..Len(storage) : storage[i].mode = "FILE"}
\* The file has a last-modified time and its age is at least the retention,
\* which is 3 days when the caller passes none.
TopEligible(i) ==
    /\ storage[i].modified # None
    /\ timestamp - storage[i].modified[1]
          >= (IF retain = None THEN 3 ELSE retain[1])

\* C24 (eligibility of a top-level file): a top-level file is queued or
\* removed only if it has a last-modified time and its age at the sampled time
\* is at least the retention, the boundary included; when the sweep returns Ok
\* with the limit not reached, every such file is removed; the time is the one
\* sampled at the start.
C24_TopFileEligibility ==
    /\ \A i \in TopFileIdx : ~storage[i].present => TopEligible(i)
    /\ \A i \in remove_temp_files_path : TopEligible(i)
    /\ (vpc = "done" /\ vresult # None /\ vresult[1] = "Ok"
           /\ vresult[2] < limit)
          => \A i \in TopFileIdx : TopEligible(i) => ~storage[i].present
    /\ timestamp = Now

\* C24 witness: default retention; a file aged exactly 3 days is removed, a
\* file without last-modified time is kept, and the limit was not reached.
C24_Witness ==
    /\ retain = None
    /\ vpc = "done"
    /\ vresult # None
    /\ vresult[1] = "Ok"
    /\ vresult[2] < limit
    /\ \E i \in TopFileIdx :
          /\ ~storage[i].present
          /\ storage[i].modified = Some(timestamp - 3)
    /\ \E i \in TopFileIdx : storage[i].present /\ storage[i].modified = None

RECURSIVE SumSeq(_)
SumSeq(q) == IF q = <<>> THEN 0 ELSE q[1] + SumSeq(Tail(q))

\* C25 (returned count): when the sweep returns Ok(n), n is the number of paths
\* submitted in its bulk-delete requests, which is the number of files removed
\* (top-level files and non-sentinel files of sub-directories); n is at most
\* the limit; the deleted sentinels and sub-directory entries are not in n.
C25_ReturnedCount ==
    (vpc = "done" /\ vresult # None /\ vresult[1] = "Ok") =>
        /\ vresult[2] = removed_temp_files
        /\ vresult[2] = SumSeq(requests)
        /\ vresult[2] = FilesRemoved
        /\ vresult[2] <= limit
        /\ ItemsRemoved = vresult[2] + MarkersRemoved

\* C25 witness: a sweep returned Ok(n) after removing a top-level file, a file
\* beneath a sentinel, the sentinel and the sub-directory entry.
C25_Witness ==
    /\ vpc = "done"
    /\ vresult = <<"Ok", 2>>
    /\ Len(requests) = 2
    /\ MarkersRemoved = 2
    /\ \E i \in TopFileIdx : ~storage[i].present

-----------------------------------------------------------------------------
(* ReclusterTableInterpreter: execute2 and execute_recluster               *)

\* The conflict codes matched at lines 130-136.
Retryable == {"TABLE_LOCK_EXPIRED", "TABLE_ALREADY_LOCKED",
              "TABLE_VERSION_MISMATCHED", "UNRESOLVABLE_CONFLICT"}
\* Codes a failing call inside execute_recluster may carry.
ErrorCodes == Retryable \cup {"Internal", "AbortedQuery"}

\* ReclusterTasks: the variant and the number of tasks or parts it carries.
ReclusterTasks == {[variant |-> v, len |-> n] :
                      v \in {"Recluster", "Compact"}, n \in 0..1}
Snapshots == {"snapshot_a", "snapshot_b"}
\* table.get_table_info() of the table named by the plan
TableInfo == "table_info"

\* What build_recluster_mutator returns: no mutator, or a mutator with its
\* tasks, its snapshot, is_distributed() and its recluster_blocks_count.
Mutators == {None} \cup
            {Some([tasks |-> t, snapshot |-> sn, is_distributed |-> d,
                   recluster_blocks_count |-> b]) :
                t \in ReclusterTasks, sn \in Snapshots, d \in BOOLEAN,
                b \in 0..MaxBlocks}

\* lines 213-220: `mutator.is_none()` or `mutator.tasks.is_empty()`
NoTasks(m) == m = None \/ m[1].tasks.len = 0

\* Plan nodes, written as in the pipeline builder below: a kind, the inputs,
\* and the payload.
ReclusterSourceNode(tasks, table_info) ==
    [kind |-> "ReclusterSource", inputs |-> <<>>, tasks |-> tasks,
     table_info |-> table_info]
ExchangeNode(input) ==
    [kind |-> "Exchange", inputs |-> <<input>>, fragment |-> "Merge",
     keys |-> <<>>, allow_adjust_parallelism |-> TRUE,
     ignore_exchange |-> FALSE]
ReclusterSinkNode(input, table_info, snapshot) ==
    [kind |-> "ReclusterSink", inputs |-> <<input>>,
     table_info |-> table_info, snapshot |-> snapshot]

ReclusterPlanNeverExchanged(tasks, table_info, snapshot, is_distributed) ==
    ReclusterSinkNode(ReclusterSourceNode(tasks, table_info), table_info,
                      snapshot)
\* lines 262-295: the Recluster arm of build_recluster_physical_plan
ReclusterPlan(tasks, table_info, snapshot, is_distributed) ==
    LET source == ReclusterSourceNode(tasks, table_info)
        root == IF is_distributed THEN ExchangeNode(source) ELSE source
    IN  ReclusterSinkNode(root, table_info, snapshot)

\* lines 296-301: the arguments handed to
\* OptimizeTableInterpreter::build_physical_plan
CompactArgs(parts, table_info, snapshot, is_distributed) ==
    [parts |-> parts, table_info |-> table_info, snapshot |-> snapshot,
     is_distributed |-> is_distributed]

\* OptimizeTableInterpreter::build_physical_plan: an error, or a plan that is
\* its own and is determined by the arguments.
build_physical_plan(args) ==
    {<<"Ok", [kind |-> "CompactPlan", inputs |-> <<>>, args |-> args]>>}
    \cup {<<"Err", code>> : code \in ErrorCodes}

DelegatedThenExchanged(r) ==
    IF r[1] = "Ok" THEN <<"Ok", ExchangeNode(r[2])>> ELSE r
\* lines 296-301: the Compact arm returns what the call returned
Delegated(r) == r

SwallowedInAnyMode(final, code) == code \in Retryable
\* lines 129-137: `plan.is_final && matches!(e.code(), ...)`
Swallowed(final, code) == final /\ code \in Retryable

AbortIgnored(flag) == FALSE
\* line 110: `if let Err(err) = ctx.check_aborting()`
AbortRequested(flag) == flag

LeakExecutor(e) == e
\* the executor goes out of scope (line 247, or any return after line 243)
DropExecutor(e) == e - 1

LeakGuard(g) == g
\* the lock guard goes out of scope (line 249, or any earlier return)
DropGuard(g) == g - 1

WritesHistoryAlways(count) == TRUE
\* line 169: `if block_count != 0`
WritesHistory(count) == count # 0

BreakIgnored(is_break) == FALSE
\* lines 123-126: `Ok(is_break) => if is_break { break }`
BreaksLoop(is_break) == is_break

SingleBatchGoesOn(final) == FALSE
\* line 156: `if !plan.is_final { break }`
SingleBatch(final) == ~final

TimedOutNever(elapsed, limit_) == FALSE
TimedOutStrict(elapsed, limit_) == elapsed > limit_
\* line 160: `if elapsed_time >= timeout { break }`
TimedOut(elapsed, limit_) == elapsed >= limit_

RecEnv == <<is_final, timeout>>
RecBatch == <<mutator, physical_plan, shared_call>>
RecGhost == <<acquires, checks, exit_by>>

RecInit ==
    /\ is_final \in BOOLEAN
    /\ timeout \in 0..MaxTimeout
    /\ now = 0
    /\ aborting = FALSE
    /\ rpc = "loop_top"
    /\ start = 0
    /\ times = 0
    /\ block_count = 0
    /\ res = None
    /\ elapsed_time = 0
    /\ lock_guards = 0
    /\ executors = 0
    /\ mutator = None
    /\ physical_plan = None
    /\ shared_call = None
    /\ other = "out"
    /\ rresult = None
    /\ history = 0
    /\ acquires = 0
    /\ checks = 0
    /\ exit_by = "running"
    /\ effected = 0

RecIdle ==
    /\ is_final = FALSE
    /\ timeout = 0
    /\ now = 0
    /\ aborting = FALSE
    /\ rpc = "idle"
    /\ start = 0
    /\ times = 0
    /\ block_count = 0
    /\ res = None
    /\ elapsed_time = 0
    /\ lock_guards = 0
    /\ executors = 0
    /\ mutator = None
    /\ physical_plan = None
    /\ shared_call = None
    /\ other = "out"
    /\ rresult = None
    /\ history = 0
    /\ acquires = 0
    /\ checks = 0
    /\ exit_by = "running"
    /\ effected = 0

RecRunning == rpc \notin {"idle", "done"}

\* The wall clock advances.
RecTick ==
    /\ RecRunning
    /\ now < MaxClock
    /\ now' = now + 1
    /\ UNCHANGED <<RecEnv, effected, RecBatch, other, aborting, rpc, start, times, block_count, res,
                   elapsed_time, lock_guards, executors, rresult, history,
                   RecGhost>>
    /\ UNCHANGED OutsideRecluster

\* The query is killed or the server shuts down.
RecKill ==
    /\ RecRunning
    /\ ~aborting
    /\ aborting' = TRUE
    /\ UNCHANGED <<RecEnv, effected, RecBatch, other, now, rpc, start, times, block_count, res,
                   elapsed_time, lock_guards, executors, rresult, history,
                   RecGhost>>
    /\ UNCHANGED OutsideRecluster

\* lines 109-116: top of the loop, ctx.check_aborting()
RecCheckAborting ==
    /\ rpc = "loop_top"
    /\ times < MaxIters
    /\ IF AbortRequested(aborting)
       THEN /\ rpc' = "done"
            /\ rresult' = <<"Err", "AbortedQuery">>
            /\ exit_by' = "abort"
            /\ checks' = checks
       ELSE /\ rpc' = "acquire"
            /\ checks' = checks + 1
            /\ UNCHANGED <<rresult, exit_by>>
    /\ UNCHANGED <<RecEnv, effected, RecBatch, other, now, aborting, start, times, block_count, res,
                   elapsed_time, lock_guards, executors, history, acquires>>
    /\ UNCHANGED OutsideRecluster

\* lines 192-201: acquire_table_lock(...).await?; the lock is granted only
\* while no concurrent invocation holds it
RecAcquire ==
    /\ rpc = "acquire"
    /\ acquires' = acquires + 1
    /\ \/ /\ other = "out"
          /\ lock_guards' = lock_guards + 1
          /\ rpc' = "get_table"
          /\ res' = None
       \/ \E code \in ErrorCodes :
             /\ res' = <<"Err", code>>
             /\ rpc' = "classify"
             /\ lock_guards' = lock_guards
    /\ UNCHANGED <<RecEnv, effected, RecBatch, other, now, aborting, start, times, block_count,
                   elapsed_time, executors, rresult, history, checks, exit_by>>
    /\ UNCHANGED OutsideRecluster

\* lines 203-209: get_table, check_mutable, FuseTable::try_from_table
RecGetTable ==
    /\ rpc = "get_table"
    /\ \/ rpc' = "mutator" /\ res' = res
       \/ \E code \in ErrorCodes :
             res' = <<"Err", code>> /\ rpc' = "drop_guard"
    /\ UNCHANGED <<RecEnv, effected, RecBatch, other, now, aborting, start, times, block_count,
                   elapsed_time, lock_guards, executors, rresult, history,
                   RecGhost>>
    /\ UNCHANGED OutsideRecluster

\* lines 210-222: build_recluster_mutator; no mutator or no tasks is Ok(true),
\* otherwise the batch's blocks are added to block_count
RecMutator ==
    /\ rpc = "mutator"
    /\ \/ \E m \in Mutators :
             /\ mutator' = m
             /\ IF NoTasks(m)
                THEN /\ res' = <<"Ok", TRUE>>
                     /\ rpc' = "drop_guard"
                     /\ block_count' = block_count
                ELSE /\ block_count' = block_count + m[1].recluster_blocks_count
                     /\ rpc' = "plan"
                     /\ res' = res
       \/ \E code \in ErrorCodes :
             /\ res' = <<"Err", code>>
             /\ rpc' = "drop_guard"
             /\ block_count' = block_count
             /\ mutator' = mutator
    /\ UNCHANGED <<RecEnv, effected, physical_plan, shared_call, other, now, aborting, start, times, elapsed_time,
                   lock_guards, executors, rresult, history, RecGhost>>
    /\ UNCHANGED OutsideRecluster

\* lines 223-228 and 255-303: build_recluster_physical_plan(..)?
RecPlan ==
    /\ rpc = "plan"
    /\ LET m == mutator[1]
       IN  IF m.tasks.variant = "Recluster"
           THEN /\ physical_plan' =
                      <<"Ok", ReclusterPlan(m.tasks, TableInfo, m.snapshot,
                                            m.is_distributed)>>
                /\ shared_call' = shared_call
                /\ rpc' = "build"
                /\ res' = res
           ELSE \E r \in build_physical_plan(
                            CompactArgs(m.tasks, TableInfo, m.snapshot,
                                        m.is_distributed)) :
                   /\ shared_call' =
                         Some([args |-> CompactArgs(m.tasks, TableInfo,
                                                    m.snapshot,
                                                    m.is_distributed),
                               result |-> r])
                   /\ physical_plan' = Delegated(r)
                   /\ IF Delegated(r)[1] = "Ok"
                      THEN rpc' = "build" /\ res' = res
                      ELSE rpc' = "drop_guard" /\ res' = Delegated(r)
    /\ UNCHANGED <<RecEnv, effected, mutator, other, now, aborting, start, times,
                   block_count, elapsed_time, lock_guards, executors, rresult,
                   history, RecGhost>>
    /\ UNCHANGED OutsideRecluster

\* lines 230-243: the pipeline is built, the settings are read and the
\* executor is created
RecBuild ==
    /\ rpc = "build"
    /\ \/ /\ executors' = executors + 1
          /\ rpc' = "set_executor"
          /\ res' = res
       \/ \E code \in ErrorCodes :
             /\ res' = <<"Err", code>>
             /\ rpc' = "drop_guard"
             /\ executors' = executors
    /\ UNCHANGED <<RecEnv, effected, RecBatch, other, now, aborting, start, times, block_count,
                   elapsed_time, lock_guards, rresult, history, RecGhost>>
    /\ UNCHANGED OutsideRecluster

\* lines 244-245: ctx.set_executor(..)?, complete_executor.execute()?
RecExecute ==
    /\ rpc = "set_executor"
    /\ \/ /\ res' = <<"Ok", FALSE>>
          /\ effected' = effected + mutator[1].recluster_blocks_count
       \/ \E code \in ErrorCodes :
             res' = <<"Err", code>> /\ effected' = effected
    /\ rpc' = "drop_executor"
    /\ UNCHANGED <<RecEnv, RecBatch, other, now, aborting, start, times, block_count,
                   elapsed_time, lock_guards, executors, rresult, history,
                   RecGhost>>
    /\ UNCHANGED OutsideRecluster

\* line 247 (or the unwinding of an early return): the executor is dropped
RecDropExecutor ==
    /\ rpc = "drop_executor"
    /\ executors' = DropExecutor(executors)
    /\ rpc' = "drop_guard"
    /\ UNCHANGED <<RecEnv, effected, RecBatch, other, now, aborting, start, times, block_count, res,
                   elapsed_time, lock_guards, rresult, history, RecGhost>>
    /\ UNCHANGED OutsideRecluster

\* line 249 (or the unwinding of an early return): the lock guard is dropped
\* and execute_recluster returns; its locals are gone
RecDropGuard ==
    /\ rpc = "drop_guard"
    /\ lock_guards' = DropGuard(lock_guards)
    /\ rpc' = "classify"
    /\ mutator' = None
    /\ physical_plan' = None
    /\ shared_call' = None
    /\ UNCHANGED <<RecEnv, effected, other, now, aborting, start, times, block_count, res,
                   elapsed_time, executors, rresult, history, RecGhost>>
    /\ UNCHANGED OutsideRecluster

\* lines 122-143: `match res`
RecClassify ==
    /\ rpc = "classify"
    /\ IF res[1] = "Ok"
       THEN IF BreaksLoop(res[2])
            THEN rpc' = "history" /\ exit_by' = "no_tasks" /\ rresult' = rresult
            ELSE rpc' = "after" /\ UNCHANGED <<exit_by, rresult>>
       ELSE IF Swallowed(is_final, res[2])
            THEN rpc' = "after" /\ UNCHANGED <<exit_by, rresult>>
            ELSE /\ rpc' = "done"
                 /\ rresult' = res
                 /\ exit_by' = "error"
    /\ UNCHANGED <<RecEnv, effected, RecBatch, other, now, aborting, start, times, block_count, res,
                   elapsed_time, lock_guards, executors, history, acquires,
                   checks>>
    /\ UNCHANGED OutsideRecluster

\* lines 145-166: the elapsed time is sampled, then the two stop tests
RecAfter ==
    /\ rpc = "after"
    /\ elapsed_time' = now - start
    /\ times' = times + 1
    /\ IF SingleBatch(is_final)
       THEN rpc' = "history" /\ exit_by' = "single_batch"
       ELSE IF TimedOut(now - start, timeout)
            THEN rpc' = "history" /\ exit_by' = "timeout"
            ELSE rpc' = "loop_top" /\ exit_by' = exit_by
    /\ UNCHANGED <<RecEnv, effected, RecBatch, other, now, aborting, start, block_count, res,
                   lock_guards, executors, rresult, history, acquires, checks>>
    /\ UNCHANGED OutsideRecluster

\* lines 169-179: the history record, then Ok(PipelineBuildResult::create())
RecHistory ==
    /\ rpc = "history"
    /\ rpc' = "done"
    /\ IF WritesHistory(block_count)
       THEN \/ history' = history + 1 /\ rresult' = <<"Ok">>
            \/ history' = history /\ rresult' = <<"Err", "HistoryWrite">>
       ELSE history' = history /\ rresult' = <<"Ok">>
    /\ UNCHANGED <<RecEnv, effected, RecBatch, other, now, aborting, start, times, block_count, res,
                   elapsed_time, lock_guards, executors, RecGhost>>
    /\ UNCHANGED OutsideRecluster

\* RecAfter under an advancing wall clock: the sample of line 145 is later
\* than the sample before it (or than `start`, for the first one).
RecAfterTimed ==
    /\ now - start > elapsed_time
    /\ RecAfter

\* A concurrent execute2 on the same table enters a batch: the table lock is
\* mutually exclusive, so it is granted only while this invocation holds no
\* guard; like this one, the other runs its batch under its guard.
RecOtherEnters ==
    /\ RecRunning
    /\ other = "out"
    /\ lock_guards = 0
    /\ other' = "batch"
    /\ UNCHANGED <<RecEnv, effected, RecBatch, now, aborting, rpc, start, times,
                   block_count, res, elapsed_time, lock_guards, executors,
                   rresult, history, RecGhost>>
    /\ UNCHANGED OutsideRecluster

\* The concurrent execute2 ends its batch and drops its guard.
RecOtherLeaves ==
    /\ RecRunning
    /\ other = "batch"
    /\ other' = "out"
    /\ UNCHANGED <<RecEnv, effected, RecBatch, now, aborting, rpc, start, times,
                   block_count, res, elapsed_time, lock_guards, executors,
                   rresult, history, RecGhost>>
    /\ UNCHANGED OutsideRecluster

RecNext ==
    \/ RecTick
    \/ RecKill
    \/ RecOtherEnters
    \/ RecOtherLeaves
    \/ RecCheckAborting
    \/ RecAcquire
    \/ RecGetTable
    \/ RecMutator
    \/ RecPlan
    \/ RecBuild
    \/ RecExecute
    \/ RecDropExecutor
    \/ RecDropGuard
    \/ RecClassify
    \/ RecAfter
    \/ RecHistory

\* The steps of execute2 itself, under an advancing clock.
RecProgram ==
    \/ RecCheckAborting
    \/ RecAcquire
    \/ RecGetTable
    \/ RecMutator
    \/ RecPlan
    \/ RecBuild
    \/ RecExecute
    \/ RecDropExecutor
    \/ RecDropGuard
    \/ RecClassify
    \/ RecAfterTimed
    \/ RecHistory

RecLiveNext ==
    \/ RecTick
    \/ RecKill
    \/ RecOtherEnters
    \/ RecOtherLeaves
    \/ RecCheckAborting
    \/ RecAcquire
    \/ RecGetTable
    \/ RecMutator
    \/ RecPlan
    \/ RecBuild
    \/ RecExecute
    \/ RecDropExecutor
    \/ RecDropGuard
    \/ RecClassify
    \/ RecAfterTimed
    \/ RecHistory

\* Every call returns and the wall clock advances.
RecFairness == WF_vars(RecProgram) /\ WF_vars(RecTick)

-----------------------------------------------------------------------------
(* Properties of the recluster loop.                                       *)

\* C2 (lock discipline): at most one lock guard is alive at any time, and none
\* is alive at the top of an iteration, when the lock is about to be acquired,
\* while the result of an iteration is classified, or after execute2 returned.
C2_LockDiscipline ==
    /\ lock_guards \in {0, 1}
    /\ rpc \in {"loop_top", "acquire", "classify", "after", "history", "done"}
          => lock_guards = 0

\* C2 witness: a later iteration holds the lock after an earlier one held and
\* released it.
C2_Witness ==
    /\ times >= 1
    /\ acquires >= 2
    /\ lock_guards = 1
    /\ rpc = "set_executor"

\* C4 (failure classification): when an iteration returned an error, the loop
\* goes on if and only if is_final holds and the code is one of the four
\* conflict codes; otherwise execute2 returns that same error at once, with no
\* further lock acquisition and no history record.
C4_FailureClassification ==
    [][(rpc = "classify" /\ rpc' # rpc /\ res[1] = "Err") =>
          IF is_final /\ res[2] \in Retryable
          THEN rpc' = "after" /\ rresult' = None
          ELSE /\ rpc' = "done"
               /\ rresult' = <<"Err", res[2]>>
               /\ acquires' = acquires
               /\ history' = history]_vars

\* C4 witness: a lock conflict was swallowed in run-until-exhausted mode and
\* the loop went on to a further iteration.
C4_Witness ==
    /\ is_final
    /\ res = <<"Err", "TABLE_ALREADY_LOCKED">>
    /\ rpc = "acquire"
    /\ times >= 1

\* C8 (history record, as claimed): after every exit of execute2 exactly one
\* record is written if block_count is non-zero and none if it is zero.
C8_HistoryOnEveryExit ==
    rpc = "done" => history = (IF block_count # 0 THEN 1 ELSE 0)

\* C8 (history record, amended): when execute2 returns Ok, exactly one record
\* is written if block_count is non-zero and none if it is zero; when it
\* returns an error (cancellation, fatal error, failed history write) no record
\* is written, whatever block_count is; never more than one is written.
C8_HistoryOnLoopExit ==
    /\ history \in {0, 1}
    /\ rpc # "done" => history = 0
    /\ (rpc = "done" /\ rresult = <<"Ok">>)
          => history = (IF block_count # 0 THEN 1 ELSE 0)
    /\ (rpc = "done" /\ rresult # <<"Ok">>) => history = 0

\* C8 witness: the loop ran more than one batch and its record was written.
C8_Witness ==
    /\ rpc = "done"
    /\ rresult = <<"Ok">>
    /\ times >= 2
    /\ block_count # 0
    /\ history = 1

\* C9 (cancellation): a set abort signal seen at the top of an iteration, in
\* either mode, ends execute2 with the abort error without acquiring the lock,
\* running any step of a batch or writing history; every lock acquisition
\* follows a check that found the signal clear; an abort error is never
\* swallowed.
C9_Cancellation ==
    /\ [][(rpc = "loop_top" /\ rpc' # rpc /\ aborting) =>
             /\ rpc' = "done"
             /\ rresult' = <<"Err", "AbortedQuery">>
             /\ acquires' = acquires
             /\ lock_guards' = 0
             /\ block_count' = block_count
             /\ history' = history]_vars
    /\ [](acquires <= checks /\ checks <= acquires + 1)
    /\ [][(rpc = "classify" /\ rpc' # rpc /\ res = <<"Err", "AbortedQuery">>)
             => rpc' = "done" /\ rresult' = res]_vars

\* C9 witness: the signal was set during a batch of run-until-exhausted mode
\* and the next iteration returned the abort error.
C9_Witness ==
    /\ is_final
    /\ rpc = "done"
    /\ exit_by = "abort"
    /\ rresult = <<"Err", "AbortedQuery">>
    /\ times >= 1
    /\ acquires = times

\* C10 (stop rule, as claimed): a loop stopped by the timeout returns success.
C10_TimeoutReturnsOk ==
    (rpc = "done" /\ exit_by = "timeout") => rresult = <<"Ok">>

\* C10 (stop rule, amended): in run-until-exhausted mode, after an iteration
\* that did work or whose conflict was swallowed, another iteration begins if
\* and only if the elapsed time is below the timeout; otherwise the loop is
\* left without error, and execute2 returns success unless the write of the
\* history record (made when block_count is non-zero) fails.
C10_StopRule ==
    /\ [][(rpc = "after" /\ rpc' # rpc /\ is_final) =>
             /\ elapsed_time' = now - start
             /\ (rpc' = "loop_top") <=> (now - start < timeout)
             /\ (now - start >= timeout) =>
                   rpc' = "history" /\ exit_by' = "timeout" /\ rresult' = None]_vars
    /\ []((rpc = "done" /\ exit_by = "timeout") =>
             \/ rresult = <<"Ok">>
             \/ rresult = <<"Err", "HistoryWrite">> /\ block_count # 0)

\* C10 witness: two iterations ran below the timeout, the third ended at or
\* past it, and execute2 returned Ok.
C10_Witness ==
    /\ is_final
    /\ rpc = "done"
    /\ exit_by = "timeout"
    /\ rresult = <<"Ok">>
    /\ times >= 2
    /\ elapsed_time >= timeout
    /\ timeout > 0

\* C11 (single-batch mode): with plan.is_final false the loop body is entered
\* once and never again, whatever the iteration ended with, so the table lock
\* is acquired at most once; execute2 returns after that one iteration, or
\* with the abort error before any acquisition.
C11_SingleBatchOneIteration ==
    (~is_final /\ rpc # "idle") =>
        /\ acquires <= 1
        /\ checks <= 1
        /\ times <= 1
        /\ rpc = "loop_top" => (times = 0 /\ acquires = 0 /\ checks = 0)
        /\ rpc = "done" => \/ exit_by = "abort" /\ acquires = 0
                           \/ exit_by # "abort" /\ acquires = 1

\* C11 witness: a single-batch call whose one iteration did work has returned.
C11_Witness ==
    /\ ~is_final
    /\ rpc = "done"
    /\ exit_by = "single_batch"
    /\ res = <<"Ok", FALSE>>
    /\ acquires = 1
    /\ times = 1

\* The step in which build_recluster_mutator returned no mutator or a mutator
\* without tasks.
NoTasksProposed ==
    /\ rpc = "mutator"
    /\ rpc' # rpc
    /\ NoTasks(mutator')
    /\ ~(res' # None /\ res'[1] = "Err")

\* C12 (no-work exit): in either mode, an iteration in which no tasks are
\* proposed assembles no plan, builds and runs no pipeline and leaves
\* block_count as it was; its guard is dropped; the loop is left by `break`
\* with no further acquisition; when it was the first iteration block_count is
\* zero, no history record is written and execute2 returns Ok.
C12_NoWorkExit ==
    /\ [][NoTasksProposed =>
             /\ res' = <<"Ok", TRUE>>
             /\ rpc' = "drop_guard"
             /\ block_count' = block_count
             /\ physical_plan' = None
             /\ executors' = 0]_vars
    /\ [][(rpc = "drop_guard" /\ rpc' # rpc /\ res = <<"Ok", TRUE>>) =>
             lock_guards' = 0 /\ rpc' = "classify"]_vars
    /\ [][(rpc = "classify" /\ rpc' # rpc /\ res = <<"Ok", TRUE>>) =>
             rpc' = "history" /\ exit_by' = "no_tasks"]_vars
    /\ [][exit_by = "no_tasks" =>
             /\ acquires' = acquires
             /\ checks' = checks
             /\ block_count' = block_count
             /\ exit_by' = exit_by]_vars
    /\ [](exit_by = "no_tasks" =>
             /\ rpc \in {"history", "done"}
             /\ lock_guards = 0
             /\ executors = 0
             /\ rpc = "done" =>
                   \/ rresult = <<"Ok">>
                   \/ rresult = <<"Err", "HistoryWrite">> /\ block_count # 0
             /\ times = 0 => (block_count = 0 /\ history = 0 /\ acquires = 1))

\* C12 witness: run-until-exhausted mode, no tasks on the first iteration, and
\* execute2 returned Ok without a history record.
C12_Witness ==
    /\ is_final
    /\ rpc = "done"
    /\ exit_by = "no_tasks"
    /\ times = 0
    /\ block_count = 0
    /\ history = 0
    /\ rresult = <<"Ok">>

RECURSIVE CountKind(_, _)
\* The nodes of kind k in a plan.
CountKind(p, k) ==
    (IF p.kind = k THEN 1 ELSE 0)
    + (IF p.inputs = <<>> THEN 0 ELSE CountKind(p.inputs[1], k))

\* C13 (shape of the Recluster plan): the plan assembled for the Recluster
\* variant is Ok; not distributed, it is a ReclusterSink directly over the
\* ReclusterSource and holds no Exchange; distributed, it holds exactly one
\* Exchange, whose input is the ReclusterSource and which is the input of the
\* ReclusterSink.
C13_ReclusterPlanShape ==
    (physical_plan # None /\ mutator[1].tasks.variant = "Recluster") =>
        /\ physical_plan[1] = "Ok"
        /\ LET p == physical_plan[2]
               in_ == p.inputs[1]
           IN  /\ p.kind = "ReclusterSink"
               /\ Len(p.inputs) = 1
               /\ CountKind(p, "ReclusterSource") = 1
               /\ CountKind(p, "ReclusterSink") = 1
               /\ IF mutator[1].is_distributed
                  THEN /\ CountKind(p, "Exchange") = 1
                       /\ in_.kind = "Exchange"
                       /\ Len(in_.inputs) = 1
                       /\ in_.inputs[1].kind = "ReclusterSource"
                       /\ in_.inputs[1].tasks = mutator[1].tasks
                  ELSE /\ CountKind(p, "Exchange") = 0
                       /\ in_.kind = "ReclusterSource"
                       /\ in_.tasks = mutator[1].tasks

\* C13 witness: a distributed Recluster batch whose plan was assembled.
C13_Witness ==
    /\ rpc = "build"
    /\ mutator # None
    /\ mutator[1].tasks.variant = "Recluster"
    /\ mutator[1].is_distributed
    /\ physical_plan # None
    /\ CountKind(physical_plan[2], "Exchange") = 1

\* C14 (Compact delegation): for the Compact variant the compaction plan
\* builder is called with the mutator's parts, the table info, the snapshot
\* and the is_distributed flag, and what build_recluster_physical_plan returns
\* is what that call returned, plan or error, with nothing added; an error is
\* the result of the iteration. The Recluster variant makes no such call.
C14_CompactDelegation ==
    /\ shared_call # None =>
          /\ mutator # None
          /\ mutator[1].tasks.variant = "Compact"
          /\ shared_call[1].args =
                [parts |-> mutator[1].tasks, table_info |-> TableInfo,
                 snapshot |-> mutator[1].snapshot,
                 is_distributed |-> mutator[1].is_distributed]
          /\ physical_plan = shared_call[1].result
          /\ shared_call[1].result[1] = "Err" =>
                (rpc = "drop_guard" /\ res = shared_call[1].result)
    /\ (physical_plan # None /\ mutator[1].tasks.variant = "Compact")
          => shared_call # None
    /\ (physical_plan # None /\ mutator[1].tasks.variant = "Recluster")
          => shared_call = None

\* C14 witness: a distributed Compact batch whose plan came back from the
\* compaction plan builder.
C14_Witness ==
    /\ rpc = "build"
    /\ shared_call # None
    /\ shared_call[1].args.is_distributed
    /\ shared_call[1].result[1] = "Ok"
    /\ physical_plan = shared_call[1].result

\* The steps of a batch: table fetch, task proposal, plan assembly,
\* compilation, execution, release of the executor.
InBatch ==
    rpc \in {"get_table", "mutator", "plan", "build", "set_executor",
             "drop_executor"}

\* C19 (batch under the lock): every step of a batch is taken while this
\* invocation holds exactly one guard; an executor is alive only while the
\* guard is, so it is released first on every exit path; and while this
\* invocation is in a batch no concurrent invocation is in one.
C19_BatchUnderLock ==
    /\ InBatch => lock_guards = 1
    /\ executors \in {0, 1}
    /\ executors <= lock_guards
    /\ (mutator # None \/ physical_plan # None \/ shared_call # None)
          => lock_guards = 1
    /\ lock_guards \in {0, 1}
    /\ ~(lock_guards = 1 /\ other = "batch")
    /\ InBatch => other = "out"

\* C19 witness: execution failed in a later iteration; the executor is about
\* to be released and the guard is still held.
C19_Witness ==
    /\ rpc = "drop_executor"
    /\ res # None
    /\ res[1] = "Err"
    /\ executors = 1
    /\ lock_guards = 1
    /\ acquires >= 2

\* C21 (block total counts effective batches only): between iterations, when
\* the loop is left and once the history record is written, block_count (the
\* count the record carries) equals the sum of the recluster_blocks_count of
\* the batches whose pipeline execution returned Ok; an iteration that failed
\* has added nothing.
C21_OnlyEffectiveBatches ==
    (rpc \in {"loop_top", "history"} \/ (rpc = "done" /\ history = 1))
        => block_count = effected

\* C22 (termination, as claimed): no iteration is started once the time
\* elapsed since `start` has reached the timeout.
C22_NoStartAfterTimeout ==
    [][(rpc = "loop_top" /\ rpc' = "acquire") => now - start < timeout]_vars

\* C22 (termination, amended): when every call returns and the clock advances
\* between two samples, execute2 eventually returns, whatever the iterations
\* end with; the first iteration is started whatever the timeout is, a further
\* one only if the elapsed time sampled at the end of the previous one was
\* below the timeout; so the iterations completed number at most the timeout
\* in ticks (one, for a timeout of zero).
C22_Termination ==
    /\ <>(rpc = "done")
    /\ [][(rpc = "loop_top" /\ rpc' = "acquire") =>
             (times = 0 \/ elapsed_time < timeout)]_vars
    /\ [](times <= (IF timeout = 0 THEN 1 ELSE timeout))
    /\ [](rpc = "loop_top" => times < MaxIters)

\* C22 witness: run-until-exhausted mode, every iteration ended in a swallowed
\* conflict, and execute2 returned on the timeout.
C22_Witness ==
    /\ is_final
    /\ rpc = "done"
    /\ exit_by = "timeout"
    /\ rresult = <<"Ok">>
    /\ times >= 2
    /\ acquires = times
    /\ block_count = 0
    /\ res = <<"Err", "TABLE_ALREADY_LOCKED">>

-----------------------------------------------------------------------------
(* PipelineBuilder: finalize, add_plan_scope, build_pipeline               *)

\* The node kinds followed here, by the shape of their handler. They stand for
\* the arms of the match at lines 141-242.
SourceKinds == {"ReclusterSource"}
TransformKinds ==
    {"Filter", "Shuffle", "EvalScalar", "MergeInto", "ChunkCastSchema",
     "ChunkFillAndReorder", "ChunkMerge"}
SinkKinds == {"ReclusterSink"}
UnaryKinds == TransformKinds \cup SinkKinds \cup {"Exchange"}
BinaryKinds == {"HashJoin"}

\* The fields of a node that add_plan_scope reads besides its kind: the
\* expressions of an EvalScalar (line 110) and the merge type of a MergeInto
\* (line 111). A node of another kind carries the empty list and NoMergeType.
ExprLists == {<<>>, <<"expr">>}
MergeIntoTypes == {"FullOperation", "InsertOnly"}
NoMergeType == "-"

Fields(kind) ==
    IF kind = "EvalScalar"
    THEN {[exprs |-> x, merge_type |-> NoMergeType] : x \in ExprLists}
    ELSE IF kind = "MergeInto"
    THEN {[exprs |-> <<>>, merge_type |-> t] : t \in MergeIntoTypes}
    ELSE {[exprs |-> <<>>, merge_type |-> NoMergeType]}

Node(kind, f, inputs) ==
    [kind |-> kind, exprs |-> f.exprs, merge_type |-> f.merge_type,
     inputs |-> inputs]

NodesOver(kinds, inputs) ==
    UNION {{Node(k, f, i) : f \in Fields(k), i \in inputs} : k \in kinds}

RECURSIVE PlansOfSize(_)
\* Every plan tree of exactly n nodes.
PlansOfSize(n) ==
    IF n <= 0 THEN {}
    ELSE IF n = 1 THEN NodesOver(SourceKinds, {<<>>})
    ELSE NodesOver(UnaryKinds, {<<p>> : p \in PlansOfSize(n - 1)})
         \cup UNION {NodesOver(BinaryKinds,
                         {<<a, b>> : a \in PlansOfSize(i),
                                     b \in PlansOfSize(n - 1 - i)}) :
                         i \in 1..(n - 2)}

PhysicalPlans == UNION {PlansOfSize(n) : n \in 1..MaxPlanNodes}

\* A pipe is written by what it leaves open.
SourcePipe == [input_length |-> 0, output_length |-> 1]
TransformPipe == [input_length |-> 1, output_length |-> 1]
SinkPipe == [input_length |-> 1, output_length |-> 0]

\* Pipeline::is_pushing_pipeline / is_pulling_pipeline / is_complete_pipeline
is_pushing_pipeline(p) == p[1].input_length # 0
is_pulling_pipeline(p) == p[Len(p)].output_length # 0
is_complete_pipeline(p) ==
    p # <<>> /\ ~is_pushing_pipeline(p) /\ ~is_pulling_pipeline(p)

\* What the handler of a node kind appends once its input is built.
HandlerPipe(kind) ==
    IF kind \in SourceKinds THEN SourcePipe
    ELSE IF kind \in SinkKinds THEN SinkPipe
    ELSE TransformPipe

ScopeExemptAsListed(node) ==
    \/ node.kind = "EvalScalar" /\ node.exprs = <<>>
    \/ node.kind \in {"Shuffle", "ChunkCastSchema", "ChunkFillAndReorder",
                      "ChunkMerge"}
\* lines 110-117: the arms of add_plan_scope that return Ok(None)
ScopeExempt(node) ==
    \/ node.kind = "EvalScalar" /\ node.exprs = <<>>
    \/ node.kind = "MergeInto" /\ node.merge_type # "FullOperation"
    \/ node.kind = "Shuffle"
    \/ node.kind = "ChunkCastSchema"
    \/ node.kind = "ChunkFillAndReorder"
    \/ node.kind = "ChunkMerge"

\* lines 120-121: plan.get_desc() and plan.get_labels(), by what they are
\* computed from
get_desc(node) == <<"desc", node.kind, node.exprs, node.merge_type>>
get_labels(node) == <<"labels", node.kind, node.exprs, node.merge_type>>

\* lines 127-132: PlanScope::create(plan.get_id(), plan.name(), desc, labels)
PlanScope(path, node) ==
    [id |-> path, name |-> node.kind, desc |-> get_desc(node),
     labels |-> get_labels(node)]

Frame(node, path) ==
    [node |-> node, path |-> path, phase |-> "enter", guard |-> FALSE,
     saved |-> <<>>]

Top == stack[Len(stack)]
Pop(q) == SubSeq(q, 1, Len(q) - 1)
SetTop(q, f) == [q EXCEPT ![Len(q)] = f]

ExchangeError == <<"Err", "Invalid physical plan with PhysicalPlan::Exchange">>

ExchangeCompiled(node) == FALSE
\* lines 166-168: the arm `PhysicalPlan::Exchange(_) => Err(..)`
ExchangeRejected(node) == node.kind = "Exchange"

ScopeGuardLeaked(open, guard) == open
\* the PlanScopeGuard `_guard` of line 140 goes out of scope when
\* build_pipeline returns: the scope it attached is closed
DropScopeGuard(open, guard) == IF guard THEN Pop(open) ELSE open

SourcesNotChecked(ps) == TRUE
\* lines 88-94: every source pipeline is a complete pipeline
SourcesComplete(ps) == \A i \in 1..Len(ps) : is_complete_pipeline(ps[i])

BldInit ==
    /\ plan \in PhysicalPlans
    /\ bpc = "finalize"
    /\ stack = <<>>
    /\ ret = None
    /\ scopes = <<>>
    /\ main_pipeline = <<>>
    /\ pipelines = <<>>
    /\ bresult = None

BldIdle ==
    /\ plan = <<>>
    /\ bpc = "idle"
    /\ stack = <<>>
    /\ ret = None
    /\ scopes = <<>>
    /\ main_pipeline = <<>>
    /\ pipelines = <<>>
    /\ bresult = None

\* line 86: finalize calls build_pipeline(plan)
BldCall ==
    /\ bpc = "finalize"
    /\ bpc' = "build_pipeline"
    /\ stack' = <<Frame(plan, <<>>)>>
    /\ UNCHANGED <<plan, ret, scopes, main_pipeline, pipelines, bresult>>
    /\ UNCHANGED OutsideBuilder

\* line 140, lines 120-121: add_plan_scope fails on get_desc or get_labels and
\* build_pipeline returns the error with no scope attached
BldScopeError ==
    /\ bpc = "build_pipeline"
    /\ Top.phase = "enter"
    /\ ~ScopeExempt(Top.node)
    /\ ret' = <<"Err", "Scope">>
    /\ stack' = SetTop(stack, [Top EXCEPT !.phase = "leave"])
    /\ UNCHANGED <<plan, bpc, scopes, main_pipeline, pipelines, bresult>>
    /\ UNCHANGED OutsideBuilder

\* line 140, lines 108-136: add_plan_scope returns Ok(None) for an exempt
\* node, and otherwise attaches the scope to the main pipeline and returns its
\* guard, which build_pipeline keeps in `_guard`
BldAddPlanScope ==
    /\ bpc = "build_pipeline"
    /\ Top.phase = "enter"
    /\ LET attached == ~ScopeExempt(Top.node)
       IN  /\ scopes' = IF attached
                        THEN Append(scopes, PlanScope(Top.path, Top.node))
                        ELSE scopes
           /\ stack' = SetTop(stack, [Top EXCEPT !.guard = attached,
                                                 !.phase = "dispatch"])
    /\ UNCHANGED <<plan, bpc, ret, main_pipeline, pipelines, bresult>>
    /\ UNCHANGED OutsideBuilder

\* lines 141-242: the node is dispatched to its handler. A source handler
\* seeds the pipeline; Exchange is rejected; every other handler first builds
\* its (first) input.
BldEnter ==
    /\ bpc = "build_pipeline"
    /\ Top.phase = "dispatch"
    /\ LET node == Top.node
           me == Top
       IN  /\ scopes' = scopes
           /\ IF ExchangeRejected(node)
              THEN /\ ret' = ExchangeError
                   /\ stack' = SetTop(stack, [me EXCEPT !.phase = "leave"])
                   /\ main_pipeline' = main_pipeline
              ELSE IF node.kind \in SourceKinds
              THEN /\ ret' = <<"Ok">>
                   /\ main_pipeline' = Append(main_pipeline, HandlerPipe(node.kind))
                   /\ stack' = SetTop(stack, [me EXCEPT !.phase = "leave"])
              ELSE IF node.kind \in BinaryKinds
              THEN /\ ret' = None
                   /\ main_pipeline' = <<>>
                   /\ stack' = Append(
                          SetTop(stack, [me EXCEPT !.phase = "after_build",
                                                   !.saved = main_pipeline]),
                          Frame(node.inputs[1], Append(Top.path, 1)))
              ELSE /\ ret' = None
                   /\ main_pipeline' = main_pipeline
                   /\ stack' = Append(
                          SetTop(stack, [me EXCEPT !.phase = "after_input"]),
                          Frame(node.inputs[1], Append(Top.path, 1)))
    /\ UNCHANGED <<plan, bpc, pipelines, bresult>>
    /\ UNCHANGED OutsideBuilder

\* A single-input handler after build_pipeline(input)?: an error is passed
\* on, otherwise the handler's pipe is appended.
BldAfterInput ==
    /\ bpc = "build_pipeline"
    /\ Top.phase = "after_input"
    /\ stack' = SetTop(stack, [Top EXCEPT !.phase = "leave"])
    /\ main_pipeline' = IF ret = <<"Ok">>
                        THEN Append(main_pipeline, HandlerPipe(Top.node.kind))
                        ELSE main_pipeline
    /\ UNCHANGED <<plan, bpc, ret, scopes, pipelines, bresult>>
    /\ UNCHANGED OutsideBuilder

\* A two-input handler after its build side: the build side's pipeline is
\* pushed to `pipelines`, closed by a sink or as it stands, and the probe side
\* is built on the main pipeline.
BldAfterBuild ==
    /\ bpc = "build_pipeline"
    /\ Top.phase = "after_build"
    /\ IF ret = <<"Ok">>
       THEN /\ \E sealed \in BOOLEAN :
                 pipelines' = Append(pipelines,
                     IF sealed THEN Append(main_pipeline, SinkPipe)
                     ELSE main_pipeline)
            /\ main_pipeline' = Top.saved
            /\ ret' = None
            /\ stack' = Append(
                   SetTop(stack, [Top EXCEPT !.phase = "after_input"]),
                   Frame(Top.node.inputs[2], Append(Top.path, 2)))
       ELSE /\ stack' = SetTop(stack, [Top EXCEPT !.phase = "leave"])
            /\ UNCHANGED <<pipelines, main_pipeline, ret>>
    /\ UNCHANGED <<plan, bpc, scopes, bresult>>
    /\ UNCHANGED OutsideBuilder

\* build_pipeline returns: `_guard` is dropped, which closes the scope
BldLeave ==
    /\ bpc = "build_pipeline"
    /\ Top.phase = "leave"
    /\ scopes' = DropScopeGuard(scopes, Top.guard)
    /\ stack' = Pop(stack)
    /\ bpc' = IF Len(stack) = 1 THEN "check_sources" ELSE bpc
    /\ UNCHANGED <<plan, ret, main_pipeline, pipelines, bresult>>
    /\ UNCHANGED OutsideBuilder

\* lines 86-106: `?` on build_pipeline, the check of the source pipelines, and
\* the PipelineBuildResult
BldFinalize ==
    /\ bpc = "check_sources"
    /\ bpc' = "done"
    /\ IF ret # <<"Ok">>
       THEN bresult' = ret
       ELSE IF ~SourcesComplete(pipelines)
       THEN bresult' = <<"Err", "Source pipeline must be complete pipeline.">>
       ELSE bresult' = <<"Ok", [main_pipeline |-> main_pipeline,
                                 sources_pipelines |-> pipelines]>>
    /\ UNCHANGED <<plan, stack, ret, scopes, main_pipeline, pipelines>>
    /\ UNCHANGED OutsideBuilder

BldNext ==
    \/ BldCall
    \/ BldScopeError
    \/ BldAddPlanScope
    \/ BldEnter
    \/ BldAfterInput
    \/ BldAfterBuild
    \/ BldLeave
    \/ BldFinalize

-----------------------------------------------------------------------------
(* Properties of the pipeline builder.                                     *)

BldReturnedOk == bpc = "done" /\ bresult # None /\ bresult[1] = "Ok"

\* C7 (completeness, as claimed): a PipelineBuildResult returned by finalize
\* has a complete main pipeline and only complete source pipelines.
C7_AllComplete ==
    BldReturnedOk =>
        /\ is_complete_pipeline(bresult[2].main_pipeline)
        /\ \A i \in 1..Len(bresult[2].sources_pipelines) :
              is_complete_pipeline(bresult[2].sources_pipelines[i])

\* C7 (completeness, amended): finalize returns an error or a result whose
\* source pipelines are all complete and are all those accumulated; the main
\* pipeline is returned as built, complete or not.
C7_SourcesComplete ==
    /\ BldReturnedOk =>
          /\ \A i \in 1..Len(bresult[2].sources_pipelines) :
                is_complete_pipeline(bresult[2].sources_pipelines[i])
          /\ bresult[2].sources_pipelines = pipelines
          /\ bresult[2].main_pipeline = main_pipeline
          /\ ret = <<"Ok">>
    /\ (bpc = "done" /\ ~BldReturnedOk) => bresult[1] = "Err"

\* C7 witness: a returned result with a source pipeline, checked complete,
\* whose main pipeline is not complete.
C7_Witness ==
    /\ BldReturnedOk
    /\ bresult[2].sources_pipelines # <<>>
    /\ ~is_complete_pipeline(bresult[2].main_pipeline)

\* build_pipeline is about to dispatch an Exchange node.
AtExchange ==
    /\ bpc = "build_pipeline"
    /\ Top.phase = "dispatch"
    /\ Top.node.kind = "Exchange"

\* C15 (bare exchange rejection): when build_pipeline dispatches an Exchange
\* node, at the root or below, it returns the Internal error and adds no pipe;
\* the error is handed up through every enclosing visit, no further node is
\* visited, and finalize returns that error and no PipelineBuildResult.
C15_ExchangeRejected ==
    /\ [][(AtExchange /\ stack' # stack) =>
             /\ ret' = ExchangeError
             /\ main_pipeline' = main_pipeline
             /\ pipelines' = pipelines
             /\ Len(stack') = Len(stack)]_vars
    /\ [][ret = ExchangeError =>
             /\ ret' = ExchangeError
             /\ Len(stack') <= Len(stack)
             /\ main_pipeline' = main_pipeline
             /\ pipelines' = pipelines]_vars
    /\ []((bpc = "done" /\ ret = ExchangeError) => bresult = ExchangeError)

\* C15 witness: the plan is a ReclusterSink over an Exchange over a source,
\* and finalize returned the error.
C15_Witness ==
    /\ bpc = "done"
    /\ bresult = ExchangeError
    /\ plan.kind = "ReclusterSink"
    /\ plan.inputs[1].kind = "Exchange"
    /\ main_pipeline = <<>>

\* The scopes of the active visits that attached one, outermost first.
RECURSIVE ScopesOf(_)
ScopesOf(q) ==
    IF q = <<>> THEN <<>>
    ELSE LET f == q[Len(q)]
         IN  IF f.guard
             THEN Append(ScopesOf(Pop(q)), PlanScope(f.path, f.node))
             ELSE ScopesOf(Pop(q))

\* C16 (scope balance): at every moment the open scopes are exactly those of
\* the active visits that attached one, in nesting order: a node's scope is
\* open while the node and its subtree are visited and closed when that visit
\* returns, with Ok or with an error; so each return of build_pipeline leaves
\* the open scopes as they were before the call, and none is open at the end.
C16_ScopeBalance ==
    /\ scopes = ScopesOf(stack)
    /\ \A i \in 1..Len(stack) :
          stack[i].guard =>
             (~ScopeExempt(stack[i].node) /\ stack[i].phase # "enter")
    /\ \A i \in 1..Len(stack) :
          (stack[i].phase \in {"dispatch", "after_input", "after_build"}
              /\ ~ScopeExempt(stack[i].node)) => stack[i].guard
    /\ bpc \in {"check_sources", "done"} => scopes = <<>>

\* C16 witness: a visit two levels down has failed; its own scope and its
\* parent's are still open, and the three visits are about to return.
C16_Witness ==
    /\ bpc = "build_pipeline"
    /\ Len(stack) = 3
    /\ Top.phase = "leave"
    /\ Top.guard
    /\ ret # None
    /\ ret[1] = "Err"
    /\ Len(scopes) >= 2

\* build_pipeline has passed add_plan_scope for the node on top and is about
\* to dispatch it to its handler.
AtHandler == bpc = "build_pipeline" /\ Top.phase = "dispatch"

\* The scope that belongs to the node on top: its id, name, description and
\* labels.
ScopeOfTop ==
    [id |-> Top.path, name |-> Top.node.kind, desc |-> get_desc(Top.node),
     labels |-> get_labels(Top.node)]

\* C26 (scope exemption list, as claimed): when a node reaches its handler, no
\* scope was attached for it if it is a scalar evaluation with no expressions
\* or one of Shuffle, ChunkCastSchema, ChunkFillAndReorder, ChunkMerge, and for
\* every other node its scope is attached and is the innermost open one.
C26_ExemptAsListed ==
    AtHandler =>
        IF \/ Top.node.kind = "EvalScalar" /\ Top.node.exprs = <<>>
           \/ Top.node.kind \in {"Shuffle", "ChunkCastSchema",
                                 "ChunkFillAndReorder", "ChunkMerge"}
        THEN ~Top.guard /\ scopes = ScopesOf(Pop(stack))
        ELSE /\ Top.guard
             /\ scopes = Append(ScopesOf(Pop(stack)), ScopeOfTop)

\* The exemption list with the merge-into arm.
ExemptForC26 ==
    \/ Top.node.kind = "EvalScalar" /\ Top.node.exprs = <<>>
    \/ Top.node.kind = "MergeInto" /\ Top.node.merge_type # "FullOperation"
    \/ Top.node.kind \in {"Shuffle", "ChunkCastSchema", "ChunkFillAndReorder",
                          "ChunkMerge"}

\* C26 (scope exemption list, amended): no scope is attached for a scalar
\* evaluation with no expressions, for a merge-into whose merge type is not
\* the full operation, and for Shuffle, ChunkCastSchema, ChunkFillAndReorder
\* and ChunkMerge; each of these always reaches its handler. For any other
\* node either its scope (id, name, description, labels) is attached, as the
\* innermost open one, before the handler runs, or computing the description
\* or the labels fails and build_pipeline returns that error with no scope
\* attached and no handler run.
C26_ExemptionList ==
    /\ [](AtHandler =>
            IF ExemptForC26
            THEN ~Top.guard /\ scopes = ScopesOf(Pop(stack))
            ELSE /\ Top.guard
                 /\ scopes = Append(ScopesOf(Pop(stack)), ScopeOfTop))
    /\ [][(bpc = "build_pipeline" /\ Top.phase = "enter") =>
             \/ /\ stack' = SetTop(stack, [Top EXCEPT !.guard = ~ExemptForC26,
                                                      !.phase = "dispatch"])
                /\ ret' = ret
                /\ main_pipeline' = main_pipeline
                /\ pipelines' = pipelines
             \/ /\ ~ExemptForC26
                /\ ret' = <<"Err", "Scope">>
                /\ scopes' = scopes
                /\ stack' = SetTop(stack, [Top EXCEPT !.phase = "leave"])
                /\ main_pipeline' = main_pipeline
                /\ pipelines' = pipelines]_vars
    /\ [][(bpc = "build_pipeline" /\ Top.phase = "leave"
             /\ ret = <<"Err", "Scope">>) =>
             (main_pipeline' = main_pipeline /\ pipelines' = pipelines)]_vars

\* C26 witness: a merge-into that is not the full operation is at its handler
\* without a scope of its own, below a node that has one.
C26_Witness ==
    /\ AtHandler
    /\ Top.node.kind = "MergeInto"
    /\ Top.node.merge_type = "InsertOnly"
    /\ ~Top.guard
    /\ Len(stack) = 2
    /\ Len(scopes) = 1

-----------------------------------------------------------------------------
(* Specifications.                                                         *)

InitVacuum == VacInit /\ RecIdle /\ BldIdle
InitRecluster == RecInit /\ VacIdle /\ BldIdle
InitBuilder == BldInit /\ VacIdle /\ RecIdle

SpecVacuum == InitVacuum /\ [][VacNext]_vars
VacTwiceNext == VacNext \/ VacAgain
SpecVacuumTwice == InitVacuum /\ [][VacTwiceNext]_vars
SpecRecluster == InitRecluster /\ [][RecNext]_vars
SpecReclusterLive == InitRecluster /\ [][RecLiveNext]_vars /\ RecFairness
SpecBuilder == InitBuilder /\ [][BldNext]_vars

Init == InitVacuum \/ InitRecluster \/ InitBuilder
Next == VacTwiceNext \/ RecNext \/ BldNext
Spec == Init /\ [][Next]_vars
====
